---- MODULE Spec2Model ----
(***************************************************************************)
(* Model of proximity_analysis.py: the batch script that loads a facility  *)
(* table and a water-feature layer, reprojects both to TARGET_CRS,         *)
(* computes each facility's minimum distance to water, assigns a risk      *)
(* category and writes a CSV report and an HTML map.                       *)
(*                                                                         *)
(* Abstractions.  Geometry is one-dimensional: a facility is a point on    *)
(* the easting axis, a water feature an interval <<lo, hi>>.  Geodetic     *)
(* coordinates are integers, one unit projecting to one metre; projected   *)
(* coordinates and distances are integers in centimetres.  A float is a    *)
(* record [nan, v], so that pandas' NaN and its comparison rules are kept. *)
(* A library call that can raise is modelled by two actions, one for the   *)
(* normal return and one for the exception.                                *)
(***************************************************************************)
EXTENDS Integers, Sequences, FiniteSets, TLC

VARIABLES
    facility_file,        \* FACILITY_FILE on disk: [status, rows]
    water_file,           \* WATER_FILE on disk: [status, crs, geoms]
    pc,                   \* position of the script
    gdf_facilities,       \* facility GeoDataFrame: [loaded, crs, rows]
    gdf_water,            \* water GeoDataFrame: [loaded, crs, geoms]
    distances_m,          \* the list filled by the loop of lines 62-65
    Distance_to_Water_m,  \* column added at line 68
    Risk_Category,        \* column added at line 86
    df_report,            \* the report frame of lines 97-106
    csv_file,             \* BayArea_Risk_Analysis_Results.csv: [written, rows]
    html_file,            \* bay_area_risk_map.html: [written, markers]
    map_markers,          \* markers added to the folium map m, not yet saved
    diag,                 \* error messages shown to the operator
    events,               \* history: the I/O and computation steps taken, in order
    dist_crs              \* history: the <<facility crs, water crs>> of each distance call

vars == <<facility_file, water_file, pc, gdf_facilities, gdf_water, distances_m,
          Distance_to_Water_m, Risk_Category, df_report, csv_file, html_file,
          map_markers, diag, events, dist_crs>>

-----------------------------------------------------------------------------
(* Bounds of the model *)

MaxFacilities == 2
MaxWater == 2
ProbeCm == 12

-----------------------------------------------------------------------------
(* Settings, lines 9-12 and 72-74 *)

TARGET_CRS == "EPSG:32610"

HIGH_RISK_THRESHOLD == 100

MEDIUM_RISK_THRESHOLD == 500

-----------------------------------------------------------------------------
(* Floats *)

NaN == [nan |-> TRUE, v |-> 0]

Num(x) == [nan |-> FALSE, v |-> x]

Meters(m) == Num(m * 100)

\* a <= b on floats: every comparison with NaN is False
FloatLe(a, b) == ~a.nan /\ ~b.nan /\ a.v <= b.v

-----------------------------------------------------------------------------
(* Coordinate reference systems *)

NoCRS == "None"

IsGeodetic(crs) == crs \in {"EPSG:4326", "EPSG:4269"}

IsProjectedMeters(crs) == crs \in {"EPSG:32610"}

\* One coordinate from one CRS to another: geodetic units to centimetres of
\* easting (with the zone's false easting) and back.
Transform(from, to, x) ==
    IF IsGeodetic(from) /\ IsProjectedMeters(to) THEN x * 100 + 50000000
    ELSE IF IsProjectedMeters(from) /\ IsGeodetic(to) THEN (x - 50000000) \div 100
    ELSE x

TransformGeom(from, to, g) == [i \in DOMAIN g |-> Transform(from, to, g[i])]

-----------------------------------------------------------------------------
(* Inputs *)

\* Rows of the facility table: identity attributes and a position.
FacilityRecords ==
    { [FACILITY_NAME |-> "A", COUNTY |-> "Alameda", LONGITUDE |-> 100],
      [FACILITY_NAME |-> "B", COUNTY |-> "Marin",   LONGITUDE |-> 101],
      [FACILITY_NAME |-> "C", COUNTY |-> "Alameda", LONGITUDE |-> 600],
      [FACILITY_NAME |-> "D", COUNTY |-> "Solano",  LONGITUDE |-> 1101] }

\* Water features, as geodetic intervals.
WaterGeoms == { <<0, 0>>, <<1100, 1200>> }

\* The CRS tag a water file may carry (NoCRS: the file has none).
WaterCRSs == {"EPSG:4326", "EPSG:4269", "EPSG:32610", NoCRS}

SeqsUpTo(S, n) == UNION { [1..k -> S] : k \in 0..n }

\* The CSV file: present and well formed, absent, or present but unreadable
\* as a table with LONGITUDE/LATITUDE columns.
FacilityFiles ==
    { [status |-> "ok", rows |-> r] : r \in SeqsUpTo(FacilityRecords, MaxFacilities) }
    \cup { [status |-> st, rows |-> <<>>] : st \in {"missing", "malformed"} }

\* The shapefile: readable, with its features stored in its own CRS, or not.
WaterFiles ==
    { [status |-> "ok", crs |-> c,
       geoms |-> [i \in DOMAIN g |->
                     IF c = NoCRS THEN g[i]
                     ELSE TransformGeom("EPSG:4326", c, g[i])]] :
         c \in WaterCRSs, g \in SeqsUpTo(WaterGeoms, MaxWater) }
    \cup { [status |-> "unreadable", crs |-> NoCRS, geoms |-> <<>>] }

-----------------------------------------------------------------------------
(* GeoDataFrames *)

NoFrame == [loaded |-> FALSE, crs |-> NoCRS, attrs |-> <<>>, geometry |-> <<>>]

\* Lines 21-28: one Point per row, built from the row's coordinates, crs 4326.
FacilityFrame(rows) ==
    [loaded |-> TRUE, crs |-> "EPSG:4326", attrs |-> rows,
     geometry |-> [i \in DOMAIN rows |-> <<rows[i].LONGITUDE>>]]

\* Line 36: the layer as stored, with the file's CRS tag.
WaterFrame(f) ==
    [loaded |-> TRUE, crs |-> f.crs, attrs |-> <<>>, geometry |-> f.geoms]

\* GeoDataFrame.to_crs raises on a frame that has no CRS.
ToCrsRaises(gdf) == gdf.crs = NoCRS

\* Variant of to_crs that leaves the layer as it is (sensitivity of C8).
to_crs_untouched(gdf, target) == gdf

\* GeoDataFrame.to_crs: same rows, same order, every geometry transformed.
to_crs(gdf, target) ==
    [gdf EXCEPT !.crs = target,
                !.geometry = [i \in DOMAIN gdf.geometry |->
                                 TransformGeom(gdf.crs, target, gdf.geometry[i])]]

-----------------------------------------------------------------------------
(* Distance, lines 62-65 *)

\* shapely distance of a point to a feature, in the units of the coordinates.
GeomDistance(pt, g) ==
    IF pt[1] < g[1] THEN Num(g[1] - pt[1])
    ELSE IF pt[1] > g[2] THEN Num(pt[1] - g[2])
    ELSE Num(0)

\* GeoSeries.distance(point): one distance per feature.
SeriesDistance(gdf, pt) ==
    [i \in DOMAIN gdf.geometry |-> GeomDistance(pt, gdf.geometry[i])]

\* Variant of Series.min() that takes the largest entry (sensitivity of C9).
RECURSIVE SeriesMax(_)
SeriesMax(s) ==
    IF s = <<>> THEN NaN
    ELSE LET rest == SeriesMax(Tail(s))
         IN  IF Head(s).nan THEN rest
             ELSE IF rest.nan THEN Head(s)
             ELSE IF Head(s).v >= rest.v THEN Head(s) ELSE rest

\* Series.min(): NaN entries are skipped; the minimum of nothing is NaN.
RECURSIVE SeriesMin(_)
SeriesMin(s) ==
    IF s = <<>> THEN NaN
    ELSE LET rest == SeriesMin(Tail(s))
         IN  IF Head(s).nan THEN rest
             ELSE IF rest.nan THEN Head(s)
             ELSE IF Head(s).v <= rest.v THEN Head(s) ELSE rest

\* Variant of list.append that inserts at the front (sensitivity of C3).
ListPrepend(l, x) == <<x>> \o l

\* list.append
ListAppend(l, x) == Append(l, x)

-----------------------------------------------------------------------------
(* Risk categories, lines 72-83 *)

HighRisk == "High Risk (<100m)"

MediumRisk == "Medium Risk (101-500m)"

LowRisk == "Low Risk (>500m)"

RiskBands == {HighRisk, MediumRisk, LowRisk}

\* Variant of categorize_risk with < for <= (sensitivity of C1).
categorize_risk_strict(distance) ==
    IF ~distance.nan /\ distance.v < Meters(HIGH_RISK_THRESHOLD).v THEN HighRisk
    ELSE IF ~distance.nan /\ distance.v < Meters(MEDIUM_RISK_THRESHOLD).v THEN MediumRisk
    ELSE LowRisk

categorize_risk(distance) ==
    IF FloatLe(distance, Meters(HIGH_RISK_THRESHOLD)) THEN HighRisk
    ELSE IF FloatLe(distance, Meters(MEDIUM_RISK_THRESHOLD)) THEN MediumRisk
    ELSE LowRisk

-----------------------------------------------------------------------------
(* Initial state: the two files as found on disk, nothing loaded or written *)

NoFile == [written |-> FALSE, rows |-> <<>>]

Init ==
    /\ facility_file \in FacilityFiles
    /\ water_file \in WaterFiles
    /\ pc = "load_facilities"
    /\ gdf_facilities = NoFrame
    /\ gdf_water = NoFrame
    /\ distances_m = <<>>
    /\ Distance_to_Water_m = <<>>
    /\ Risk_Category = <<>>
    /\ df_report = <<>>
    /\ csv_file = NoFile
    /\ html_file = NoFile
    /\ map_markers = <<>>
    /\ diag = <<>>
    /\ events = <<>>
    /\ dist_crs = {}

-----------------------------------------------------------------------------
(* load_and_transform_data, lines 14-51, and its call at lines 150-152 *)

\* Lines 20-28: the table is read and the point layer built.
LoadFacilities ==
    /\ pc = "load_facilities"
    /\ facility_file.status = "ok"
    /\ gdf_facilities' = FacilityFrame(facility_file.rows)
    /\ events' = Append(events, "read_facilities")
    /\ pc' = "load_water"
    /\ UNCHANGED <<facility_file, water_file, gdf_water, distances_m,
                   Distance_to_Water_m, Risk_Category, df_report, csv_file,
                   html_file, map_markers, diag, dist_crs>>

\* Lines 29-31, then line 152: FileNotFoundError is reported, (None, None) is
\* returned and the main block does nothing more.
LoadFacilitiesNotFound ==
    /\ pc = "load_facilities"
    /\ facility_file.status = "missing"
    /\ diag' = Append(diag, "ERROR: Facility file not found")
    /\ pc' = "done"
    /\ UNCHANGED <<facility_file, water_file, gdf_facilities, gdf_water,
                   distances_m, Distance_to_Water_m, Risk_Category, df_report,
                   csv_file, html_file, map_markers, events, dist_crs>>

\* Lines 20-29: any other exception of read_csv or of the column lookups is
\* not caught and ends the script with a traceback.
LoadFacilitiesRaises ==
    /\ pc = "load_facilities"
    /\ facility_file.status = "malformed"
    /\ diag' = Append(diag, "Traceback")
    /\ pc' = "crashed"
    /\ UNCHANGED <<facility_file, water_file, gdf_facilities, gdf_water,
                   distances_m, Distance_to_Water_m, Risk_Category, df_report,
                   csv_file, html_file, map_markers, events, dist_crs>>

\* Lines 34-41: the shapefile is read.
LoadWater ==
    /\ pc = "load_water"
    /\ water_file.status = "ok"
    /\ gdf_water' = WaterFrame(water_file)
    /\ events' = Append(events, "read_water")
    /\ pc' = "transform"
    /\ UNCHANGED <<facility_file, water_file, gdf_facilities, distances_m,
                   Distance_to_Water_m, Risk_Category, df_report, csv_file,
                   html_file, map_markers, diag, dist_crs>>

\* Variant of the failed water load without the None test of line 152
\* (sensitivity of C5).
LoadWaterFailsContinues ==
    /\ pc = "load_water"
    /\ water_file.status # "ok"
    /\ diag' = Append(diag, "ERROR: Failed to load water Shapefile")
    /\ pc' = "transform"
    /\ UNCHANGED <<facility_file, water_file, gdf_facilities, gdf_water,
                   distances_m, Distance_to_Water_m, Risk_Category, df_report,
                   csv_file, html_file, map_markers, events, dist_crs>>

\* Lines 37-39, then line 152: every exception of read_file is reported,
\* (None, None) is returned and the main block does nothing more.
LoadWaterFails ==
    /\ pc = "load_water"
    /\ water_file.status # "ok"
    /\ diag' = Append(diag, "ERROR: Failed to load water Shapefile")
    /\ pc' = "done"
    /\ UNCHANGED <<facility_file, water_file, gdf_facilities, gdf_water,
                   distances_m, Distance_to_Water_m, Risk_Category, df_report,
                   csv_file, html_file, map_markers, events, dist_crs>>

\* Lines 47-51, then line 152: both layers are reprojected to TARGET_CRS.
TransformCRS ==
    /\ pc = "transform"
    /\ ~ToCrsRaises(gdf_facilities)
    /\ ~ToCrsRaises(gdf_water)
    /\ gdf_facilities' = to_crs(gdf_facilities, TARGET_CRS)
    /\ gdf_water' = to_crs(gdf_water, TARGET_CRS)
    /\ events' = Append(events, "reproject")
    /\ pc' = "distance"
    /\ UNCHANGED <<facility_file, water_file, distances_m, Distance_to_Water_m,
                   Risk_Category, df_report, csv_file, html_file, map_markers,
                   diag, dist_crs>>

\* Lines 47-48: to_crs raises on a layer without a CRS; nothing catches it.
TransformCRSRaises ==
    /\ pc = "transform"
    /\ ToCrsRaises(gdf_facilities) \/ ToCrsRaises(gdf_water)
    /\ diag' = Append(diag, "Traceback")
    /\ pc' = "crashed"
    /\ UNCHANGED <<facility_file, water_file, gdf_facilities, gdf_water,
                   distances_m, Distance_to_Water_m, Risk_Category, df_report,
                   csv_file, html_file, map_markers, events, dist_crs>>

-----------------------------------------------------------------------------
(* calculate_distance_and_categorize_risk, lines 53-88 *)

\* The for loop of line 62 has visited every row.
LoopFinished == Len(distances_m) = Len(gdf_facilities.geometry)

\* Lines 62-65, one iteration: the minimum over the water layer is appended.
DistanceStep ==
    /\ pc = "distance"
    /\ ~LoopFinished
    /\ LET facility == gdf_facilities.geometry[Len(distances_m) + 1]
           min_dist == SeriesMin(SeriesDistance(gdf_water, facility))
       IN  distances_m' = ListAppend(distances_m, min_dist)
    /\ dist_crs' = dist_crs \cup {<<gdf_facilities.crs, gdf_water.crs>>}
    /\ events' = Append(events, "distance")
    /\ UNCHANGED <<facility_file, water_file, pc, gdf_facilities, gdf_water,
                   Distance_to_Water_m, Risk_Category, df_report, csv_file,
                   html_file, map_markers, diag>>

\* Lines 62-65: the loop body is not inside any try block, so an exception
\* raised by the distance call of one iteration ends the script.
DistanceRaises ==
    /\ pc = "distance"
    /\ ~LoopFinished
    /\ diag' = Append(diag, "Traceback")
    /\ events' = Append(events, "distance_raised")
    /\ pc' = "crashed"
    /\ UNCHANGED <<facility_file, water_file, gdf_facilities, gdf_water,
                   distances_m, Distance_to_Water_m, Risk_Category, df_report,
                   csv_file, html_file, map_markers, dist_crs>>

\* Line 68: the list becomes the distance column, row by row.
AssignDistances ==
    /\ pc = "distance"
    /\ LoopFinished
    /\ Distance_to_Water_m' = distances_m
    /\ pc' = "categorize"
    /\ UNCHANGED <<facility_file, water_file, gdf_facilities, gdf_water,
                   distances_m, Risk_Category, df_report, csv_file, html_file,
                   map_markers, diag, events, dist_crs>>

\* Lines 86-88: categorize_risk is applied to every entry of the column.
ApplyCategorizeRisk ==
    /\ pc = "categorize"
    /\ Risk_Category' = [i \in DOMAIN Distance_to_Water_m |->
                            categorize_risk(Distance_to_Water_m[i])]
    /\ events' = Append(events, "classify")
    /\ pc' = "report"
    /\ UNCHANGED <<facility_file, water_file, gdf_facilities, gdf_water,
                   distances_m, Distance_to_Water_m, df_report, csv_file,
                   html_file, map_markers, diag, dist_crs>>

-----------------------------------------------------------------------------
(* generate_reports, lines 90-144 *)

\* Lines 99-106: the report columns of one row (the geometry is dropped).
ReportRow(gdf, i) ==
    [FACILITY_NAME       |-> gdf.attrs[i].FACILITY_NAME,
     COUNTY              |-> gdf.attrs[i].COUNTY,
     LONGITUDE           |-> gdf.attrs[i].LONGITUDE,
     Distance_to_Water_m |-> Distance_to_Water_m[i],
     Risk_Category       |-> Risk_Category[i]]

\* Lines 97-106: back to EPSG:4326, then the six report columns are copied.
BuildReport ==
    /\ pc = "report"
    /\ LET gdf_report == to_crs(gdf_facilities, "EPSG:4326")
       IN  df_report' = [i \in DOMAIN gdf_report.attrs |-> ReportRow(gdf_report, i)]
    /\ pc' = "to_csv"
    /\ UNCHANGED <<facility_file, water_file, gdf_facilities, gdf_water,
                   distances_m, Distance_to_Water_m, Risk_Category, csv_file,
                   html_file, map_markers, diag, events, dist_crs>>

\* Variant of the CSV write that runs before line 86 (sensitivity of C10).
WriteCsvBeforeClassify ==
    /\ pc = "categorize"
    /\ csv_file' = [written |-> TRUE, rows |-> df_report]
    /\ events' = Append(events, "write_csv")
    /\ pc' = "render_map"
    /\ UNCHANGED <<facility_file, water_file, gdf_facilities, gdf_water,
                   distances_m, Distance_to_Water_m, Risk_Category, df_report,
                   html_file, map_markers, diag, dist_crs>>

\* Lines 108-111: the report is written as the CSV file.
WriteCsv ==
    /\ pc = "to_csv"
    /\ csv_file' = [written |-> TRUE, rows |-> df_report]
    /\ events' = Append(events, "write_csv")
    /\ pc' = "render_map"
    /\ UNCHANGED <<facility_file, water_file, gdf_facilities, gdf_water,
                   distances_m, Distance_to_Water_m, Risk_Category, df_report,
                   html_file, map_markers, diag, dist_crs>>

\* Line 108: to_csv fails (the file cannot be created); nothing catches it.
WriteCsvRaises ==
    /\ pc = "to_csv"
    /\ diag' = Append(diag, "Traceback")
    /\ pc' = "crashed"
    /\ UNCHANGED <<facility_file, water_file, gdf_facilities, gdf_water,
                   distances_m, Distance_to_Water_m, Risk_Category, df_report,
                   csv_file, html_file, map_markers, events, dist_crs>>

\* Line 120 and line 124: risk_colors.get(category, 'gray').
RiskColor(category) ==
    IF category = HighRisk THEN "red"
    ELSE IF category = MediumRisk THEN "orange"
    ELSE IF category = LowRisk THEN "blue"
    ELSE "gray"

\* Lines 123-141: one marker of the map.
Marker(row) ==
    [location |-> row.LONGITUDE,
     color    |-> RiskColor(row.Risk_Category),
     popup    |-> <<row.FACILITY_NAME, row.COUNTY, row.Distance_to_Water_m,
                    row.Risk_Category>>]

\* Lines 117-141: the map is built in memory, one marker per report row.
RenderMap ==
    /\ pc = "render_map"
    /\ map_markers' = [i \in DOMAIN df_report |-> Marker(df_report[i])]
    /\ pc' = "save_map"
    /\ UNCHANGED <<facility_file, water_file, gdf_facilities, gdf_water,
                   distances_m, Distance_to_Water_m, Risk_Category, df_report,
                   csv_file, html_file, diag, events, dist_crs>>

\* Lines 117-141: folium raises while the map is built; nothing catches it.
RenderMapRaises ==
    /\ pc = "render_map"
    /\ diag' = Append(diag, "Traceback")
    /\ pc' = "crashed"
    /\ UNCHANGED <<facility_file, water_file, gdf_facilities, gdf_water,
                   distances_m, Distance_to_Water_m, Risk_Category, df_report,
                   csv_file, html_file, map_markers, events, dist_crs>>

\* Lines 143-144, then line 160: the map is saved and the script ends.
SaveMap ==
    /\ pc = "save_map"
    /\ html_file' = [written |-> TRUE, rows |-> map_markers]
    /\ events' = Append(events, "write_html")
    /\ pc' = "done"
    /\ UNCHANGED <<facility_file, water_file, gdf_facilities, gdf_water,
                   distances_m, Distance_to_Water_m, Risk_Category, df_report,
                   csv_file, map_markers, diag, dist_crs>>

\* Line 143: m.save fails (the file cannot be created); nothing catches it.
SaveMapRaises ==
    /\ pc = "save_map"
    /\ diag' = Append(diag, "Traceback")
    /\ pc' = "crashed"
    /\ UNCHANGED <<facility_file, water_file, gdf_facilities, gdf_water,
                   distances_m, Distance_to_Water_m, Risk_Category, df_report,
                   csv_file, html_file, map_markers, events, dist_crs>>

-----------------------------------------------------------------------------
(* The script, lines 147-160 *)

Next ==
    \/ LoadFacilities
    \/ LoadFacilitiesNotFound
    \/ LoadFacilitiesRaises
    \/ LoadWater
    \/ LoadWaterFails
    \/ TransformCRS
    \/ TransformCRSRaises
    \/ DistanceStep
    \/ DistanceRaises
    \/ AssignDistances
    \/ ApplyCategorizeRisk
    \/ BuildReport
    \/ WriteCsv
    \/ WriteCsvRaises
    \/ RenderMap
    \/ RenderMapRaises
    \/ SaveMap
    \/ SaveMapRaises

Spec == Init /\ [][Next]_vars

Terminated == pc \in {"done", "crashed"}

-----------------------------------------------------------------------------
(* categorize_risk on its own: the distance column holds one value, drawn   *)
(* from the values around 0 and around the two thresholds (negative values  *)
(* and NaN included), and line 86 is applied to it.                         *)

ProbeDistances ==
    { Num(v) : v \in (0 - ProbeCm)..ProbeCm }
    \cup { Num(Meters(HIGH_RISK_THRESHOLD).v + k) : k \in (0 - ProbeCm)..ProbeCm }
    \cup { Num(Meters(MEDIUM_RISK_THRESHOLD).v + k) : k \in (0 - ProbeCm)..ProbeCm }
    \cup { NaN }

ClassifyInit ==
    /\ facility_file \in { [status |-> "ok", rows |-> <<r>>] : r \in FacilityRecords }
    /\ water_file = [status |-> "ok", crs |-> TARGET_CRS, geoms |-> <<>>]
    /\ pc = "categorize"
    /\ gdf_facilities = to_crs(FacilityFrame(facility_file.rows), TARGET_CRS)
    /\ gdf_water = to_crs(WaterFrame(water_file), TARGET_CRS)
    /\ distances_m \in { <<d>> : d \in ProbeDistances }
    /\ Distance_to_Water_m = distances_m
    /\ Risk_Category = <<>>
    /\ df_report = <<>>
    /\ csv_file = NoFile
    /\ html_file = NoFile
    /\ map_markers = <<>>
    /\ diag = <<>>
    /\ events = <<"read_facilities", "read_water", "reproject", "distance">>
    /\ dist_crs = {<<TARGET_CRS, TARGET_CRS>>}

ClassifyNext == ApplyCategorizeRisk

ClassifySpec == ClassifyInit /\ [][ClassifyNext]_vars

-----------------------------------------------------------------------------
(* Reference notions used by the properties *)

HasEvent(e) == \E i \in DOMAIN events : events[i] = e

CountEvents(e) == Cardinality({ i \in DOMAIN events : events[i] = e })

\* The water features at their true (geodetic) positions, whatever CRS the
\* file stores them in.
TrueWater ==
    { TransformGeom(water_file.crs, "EPSG:4326", water_file.geoms[j]) :
        j \in DOMAIN water_file.geoms }

\* Exact distance, in centimetres, from the position x to the feature g.
TrueDistanceCm(x, g) ==
    100 * (IF x < g[1] THEN g[1] - x ELSE IF x > g[2] THEN x - g[2] ELSE 0)

\* d is the minimum over the water collection W of the distance from x.
IsMinimumDistance(d, x, W) ==
    /\ ~d.nan
    /\ d.v >= 0
    /\ \E g \in W : d.v = TrueDistanceCm(x, g)
    /\ \A g \in W : d.v <= TrueDistanceCm(x, g)

\* The band r is the band of the distance d (in centimetres) under
\* High: d <= 100 m, Medium: 100 m < d <= 500 m, Low: d > 500 m.
IsBandOf(r, d) ==
    /\ r \in RiskBands
    /\ (r = HighRisk) <=> (d <= 10000)
    /\ (r = MediumRisk) <=> (10000 < d /\ d <= 50000)
    /\ (r = LowRisk) <=> (d > 50000)

-----------------------------------------------------------------------------
(* C1: for every distance d >= 0 the classifier returns exactly one band,  *)
(* High iff d <= 100 m, Medium iff 100 m < d <= 500 m, Low iff d > 500 m.  *)
C1_BandsPartition ==
    \A i \in DOMAIN Risk_Category :
        LET d == Distance_to_Water_m[i]
        IN  (~d.nan /\ d.v >= 0) => IsBandOf(Risk_Category[i], d.v)

\* 100.01 m has been classified, as Medium.
C1_Witness ==
    /\ pc = "report"
    /\ Distance_to_Water_m = <<Num(10001)>>
    /\ Risk_Category = <<MediumRisk>>

(* C2: with a loaded but empty water collection, no facility is assigned   *)
(* any of the three risk bands (each is marked unclassifiable instead).    *)
C2_EmptyWaterUnclassifiable ==
    (gdf_water.loaded /\ gdf_water.geometry = <<>>) =>
        /\ \A i \in DOMAIN Risk_Category : Risk_Category[i] \notin RiskBands
        /\ \A i \in DOMAIN csv_file.rows :
              csv_file.rows[i].Risk_Category \notin RiskBands

(* C3: the results table has exactly one row per input facility, in input  *)
(* order; row i carries the identity attributes, the distance and the risk *)
(* band of input facility i.                                               *)
C3_OneRowPerFacilityInOrder ==
    csv_file.written =>
        /\ Len(csv_file.rows) = Len(facility_file.rows)
        /\ \A i \in DOMAIN csv_file.rows :
              LET row == csv_file.rows[i]
                  fac == facility_file.rows[i]
              IN  /\ row.FACILITY_NAME = fac.FACILITY_NAME
                  /\ row.COUNTY = fac.COUNTY
                  /\ row.LONGITUDE = fac.LONGITUDE
                  /\ IF TrueWater = {} THEN row.Distance_to_Water_m.nan
                     ELSE /\ IsMinimumDistance(row.Distance_to_Water_m,
                                               fac.LONGITUDE, TrueWater)
                          /\ IsBandOf(row.Risk_Category, row.Distance_to_Water_m.v)

\* A table of two rows whose facilities differ in name, distance and band.
C3_Witness ==
    /\ csv_file.written
    /\ Len(csv_file.rows) = 2
    /\ csv_file.rows[1].FACILITY_NAME = "C"
    /\ csv_file.rows[2].FACILITY_NAME = "A"
    /\ csv_file.rows[1].Distance_to_Water_m = Num(50000)
    /\ csv_file.rows[2].Distance_to_Water_m = Num(10000)

(* C4: the classifier never returns a risk band for a negative distance    *)
(* (it fails with InvalidDistance instead).                                *)
C4_NegativeDistanceRejected ==
    \A i \in DOMAIN Risk_Category :
        (~Distance_to_Water_m[i].nan /\ Distance_to_Water_m[i].v < 0)
            => Risk_Category[i] \notin RiskBands

(* C5: if either input file fails to load, the run ends with a diagnostic, *)
(* computes no distance or risk band and writes neither output file.       *)
C5_LoadFailureWritesNothing ==
    (facility_file.status # "ok" \/ water_file.status # "ok") =>
        /\ pc \in {"load_facilities", "load_water", "done", "crashed"}
        /\ ~HasEvent("reproject") /\ ~HasEvent("distance") /\ ~HasEvent("classify")
        /\ dist_crs = {} /\ distances_m = <<>> /\ Risk_Category = <<>>
        /\ ~csv_file.written /\ ~html_file.written
        /\ Terminated => diag # <<>>

\* The facility table loaded, the water file did not, and the run has ended.
C5_Witness ==
    /\ pc = "done"
    /\ Len(facility_file.rows) = 2
    /\ gdf_facilities.loaded
    /\ water_file.status = "unreadable"
    /\ diag # <<>>

(* C6: a failure while computing one facility's distance does not abort    *)
(* the batch: the run goes on and ends with one output record per facility.*)
C6_FacilityFailureDoesNotAbort ==
    HasEvent("distance_raised") =>
        /\ pc # "crashed"
        /\ Terminated => /\ csv_file.written
                         /\ Len(csv_file.rows) = Len(facility_file.rows)

(* C7: in every terminated run either both output artifacts have been      *)
(* written or neither has.                                                 *)
C7_OutputsAtomic ==
    Terminated => (csv_file.written <=> html_file.written)

(* C8: every distance is computed between layers that are both tagged with *)
(* the target CRS, a projected metre CRS, whatever CRS the water file had; *)
(* a water layer without a CRS never reaches the distance computation.     *)
C8_DistanceInCommonMetricCRS ==
    /\ \A p \in dist_crs :
          p[1] = p[2] /\ p[1] = TARGET_CRS /\ IsProjectedMeters(p[1])
    /\ pc = "distance" =>
          /\ gdf_facilities.crs = TARGET_CRS
          /\ gdf_water.crs = TARGET_CRS
    /\ water_file.crs = NoCRS =>
          /\ dist_crs = {}
          /\ ~HasEvent("distance")
          /\ pc \notin {"distance", "categorize", "report", "to_csv",
                        "render_map", "save_map"}

\* A distance has been computed against a water file tagged EPSG:4269.
C8_Witness ==
    /\ water_file.crs = "EPSG:4269"
    /\ Len(water_file.geoms) > 0
    /\ dist_crs # {}
    /\ Len(distances_m) > 0

(* C9: with a non-empty water collection, the distance recorded for each   *)
(* facility is the minimum over all water features of the exact distance   *)
(* to the feature: it is >= 0 and no feature is closer.                    *)
C9_RecordedDistanceIsMinimum ==
    TrueWater # {} =>
        /\ \A i \in DOMAIN distances_m :
              IsMinimumDistance(distances_m[i],
                                facility_file.rows[i].LONGITUDE, TrueWater)
        /\ \A i \in DOMAIN Distance_to_Water_m :
              IsMinimumDistance(Distance_to_Water_m[i],
                                facility_file.rows[i].LONGITUDE, TrueWater)

\* Two features; facility C is 600 m from the first and 500 m from the second.
C9_Witness ==
    /\ Len(water_file.geoms) = 2
    /\ TrueWater = WaterGeoms
    /\ Len(Distance_to_Water_m) > 0
    /\ facility_file.rows[1].FACILITY_NAME = "C"
    /\ Distance_to_Water_m[1] = Num(50000)

(* C10: both inputs are loaded and reprojected before the first distance   *)
(* is computed, and no output is written before the distance and the risk  *)
(* band of every facility have been computed.                              *)
C10_NoInterleaving ==
    /\ \A i, j \in DOMAIN events :
          /\ (events[i] \in {"read_facilities", "read_water", "reproject"}
                /\ events[j] \in {"distance", "distance_raised", "classify"}) => i < j
          /\ (events[i] \in {"distance", "distance_raised", "classify"}
                /\ events[j] \in {"write_csv", "write_html"}) => i < j
    /\ (HasEvent("distance") \/ HasEvent("distance_raised") \/ HasEvent("classify")) =>
          /\ HasEvent("read_facilities")
          /\ HasEvent("read_water")
          /\ HasEvent("reproject")
    /\ (csv_file.written \/ html_file.written
          \/ HasEvent("write_csv") \/ HasEvent("write_html")) =>
          /\ CountEvents("distance") = Len(facility_file.rows)
          /\ HasEvent("classify")
          /\ Len(Distance_to_Water_m) = Len(facility_file.rows)
          /\ Len(Risk_Category) = Len(facility_file.rows)

\* Both artifacts written for a batch of two facilities and two features.
C10_Witness ==
    /\ csv_file.written
    /\ html_file.written
    /\ Len(facility_file.rows) = 2
    /\ Len(water_file.geoms) = 2

====
